---- MODULE Spec2Model ----
(***************************************************************************)
(* TCKC Federal Litigation Threat Tracker: the HTTP server of              *)
(* tckc-litigation-tracker/server.js (route dispatch, the filter, search,  *)
(* statistics and agencies handlers over the JSON backing document).       *)
(* Further the frontend page of public/app.js behind that server, and the  *)
(* filter and search utilities and the reference panels of                 *)
(* Aesthetics/tckc-reference-sections-code.jsx.                            *)
(*                                                                         *)
(* JavaScript strings are sequences of one-character strings, so that      *)
(* case conversion, substring tests, split and join are computed and not   *)
(* assumed.  null/undefined is the one-element sequence null, which no     *)
(* string equals because its element is not a character.                   *)
(***************************************************************************)
EXTENDS Integers, Sequences, FiniteSets, TLC

VARIABLES file, req, res, errorLogged, earlier,
          ready, allEntries, filteredEntries, stats, pending, started, latest,
          lastEvent, failed,
          showCriteria, showFramework, showAgencies

\* the frontend page of public/app.js
clientVars ==
  <<ready, allEntries, filteredEntries, stats, pending, started, latest,
    lastEvent, failed>>

\* the reference panels of ReferenceSections
viewVars == <<showCriteria, showFramework, showAgencies>>

vars == <<file, req, res, errorLogged, earlier, clientVars, viewVars>>

(***************************************************************************)
(* Bounds of the model.                                                    *)
(***************************************************************************)
MaxEntries == 3

(***************************************************************************)
(* JavaScript primitives used by server.js.                                *)
(***************************************************************************)
null == <<"null">>

UpperLetters == <<"A", "B", "C", "D", "E", "F", "G", "H", "I", "J", "K", "L", "M", "N", "O", "P", "Q", "R", "S", "T", "U", "V", "W", "X", "Y", "Z">>

LowerLetters == <<"a", "b", "c", "d", "e", "f", "g", "h", "i", "j", "k", "l", "m", "n", "o", "p", "q", "r", "s", "t", "u", "v", "w", "x", "y", "z">>

IndexIn(letters, c) == CHOOSE i \in 1..Len(letters) : letters[i] = c

toUpperChar(c) ==
  IF \E i \in 1..Len(LowerLetters) : LowerLetters[i] = c
    THEN UpperLetters[IndexIn(LowerLetters, c)]
    ELSE c

toLowerChar(c) ==
  IF \E i \in 1..Len(UpperLetters) : UpperLetters[i] = c
    THEN LowerLetters[IndexIn(UpperLetters, c)]
    ELSE c

toUpperCase(s) == [i \in 1..Len(s) |-> toUpperChar(s[i])]

toLowerCase(s) == [i \in 1..Len(s) |-> toLowerChar(s[i])]

\* String.prototype.includes(t): t occurs in s as a contiguous substring
includes(s, t) ==
  \E i \in 0..(Len(s) - Len(t)) : SubSeq(s, i + 1, i + Len(t)) = t

\* String.prototype.startsWith(t)
startsWith(s, t) == Len(t) <= Len(s) /\ SubSeq(s, 1, Len(t)) = t

\* if (v): null and the empty string are falsy, every other string is truthy
Truthy(v) == v # null /\ v # <<>>

\* a filter that puts each kept element in front of the ones kept before it
RECURSIVE keep_unshift(_, _)
keep_unshift(array, pass) ==
  IF Len(array) = 0 THEN <<>>
  ELSE LET front == keep_unshift(SubSeq(array, 1, Len(array) - 1), pass)
       IN  IF Len(array) \in pass THEN <<array[Len(array)]>> \o front ELSE front

\* Array.prototype.filter, given the set of indices whose element passed the
\* test: each such element is pushed to the result, in array order
RECURSIVE keep(_, _)
keep(array, pass) ==
  IF Len(array) = 0 THEN <<>>
  ELSE LET front == keep(SubSeq(array, 1, Len(array) - 1), pass)
       IN  IF Len(array) \in pass THEN Append(front, array[Len(array)]) ELSE front

\* String.prototype.split(' '): cut at every single space character
RECURSIVE splitFrom(_, _, _)
splitFrom(s, i, cur) ==
  IF i > Len(s) THEN <<cur>>
  ELSE IF s[i] = " " THEN <<cur>> \o splitFrom(s, i + 1, <<>>)
  ELSE splitFrom(s, i + 1, Append(cur, s[i]))

split(s) == splitFrom(s, 1, <<>>)

\* Array.prototype.join(' ')
RECURSIVE join(_)
join(parts) ==
  IF Len(parts) = 0 THEN <<>>
  ELSE IF Len(parts) = 1 THEN parts[1]
  ELSE parts[1] \o <<" ">> \o join(Tail(parts))

\* the keys visited by a reduce with an inner forEach: the key lists of the
\* entries one after the other
RECURSIVE concat(_)
concat(lists) ==
  IF Len(lists) = 0 THEN <<>> ELSE lists[1] \o concat(Tail(lists))

\* Array.prototype.map(a => a.agency)
agencyCodes(refs) == [i \in 1..Len(refs) |-> refs[i].agency]

(***************************************************************************)
(* The backing document data/litigation-database.json.  Entries follow     *)
(* the entry structure of the README; docketNumber stands for the fields   *)
(* the handlers never inspect.                                             *)
(***************************************************************************)
\* a property read of an object: undefined when the object lacks the property
has(object, property) == property \in DOMAIN object

Ref(code, sub) == [agency |-> code, subAgency |-> sub]

Entry(id, name, docket, date, status, summary, refs, communities, narrative, class) ==
  [ id |-> id,
    caseName |-> name,
    docketNumber |-> docket,
    filingDate |-> date,
    currentStatus |-> status,
    claimsAndLegalBasis |-> [summary |-> summary],
    agenciesInvolved |-> refs,
    culturalImpactAnalysis |->
      [affectedCommunities |-> communities, narrativeAssessment |-> narrative],
    classification |-> class ]

EntryPool ==
  { Entry(<<"E", "P", "A", "-", "1">>, <<"O", "a", "k", " ", "v", " ", "E", "P", "A">>, <<"2", "5", "-", "1", "0", "1">>, <<"2", "0", "2", "5", "-", "0", "3", "-", "0", "1">>, <<"A", "c", "t", "i", "v", "e", ",", " ", "u", "n", "d", "e", "r", " ", "r", "e", "v", "i", "e", "w">>,
          <<"c", "l", "e", "a", "n", " ", "w", "a", "t", "e", "r">>, <<Ref(<<"E", "P", "A">>, null)>>, <<<<"T", "r", "i", "b", "a", "l", " ", "N", "a", "t", "i", "o", "n", "s">>>>,
          <<"s", "a", "c", "r", "e", "d", " ", "r", "i", "v", "e", "r">>, <<"C", "R", "I", "T", "I", "C", "A", "L">>),
    Entry(<<"D", "O", "I", "-", "2">>, <<"E", "l", "m", " ", "v", " ", "D", "O", "I">>, <<"2", "5", "-", "2", "0", "2">>, <<"2", "0", "2", "4", "-", "1", "1", "-", "2", "0">>, <<"D", "i", "s", "m", "i", "s", "s", "e", "d">>,
          <<"p", "a", "r", "k", " ", "w", "a", "t", "e", "r">>, <<Ref(<<"D", "O", "I">>, <<"N", "P", "S", "-", "W", "e", "s", "t">>)>>, <<<<"B", "l", "a", "c", "k", " ", "t", "o", "w", "n", "s">>>>,
          <<"o", "l", "d", " ", "f", "o", "r", "t">>, <<"P", "R", "O", "T", "E", "C", "T", "I", "V", "E">>),
    Entry(<<"D", "O", "I", "-", "3">>, <<"A", "s", "h", " ", "v", " ", "B", "L", "M">>, <<"2", "5", "-", "3", "0", "3">>, <<"2", "0", "2", "5", "-", "0", "6", "-", "1", "5">>, <<"I", "n", "j", "u", "n", "c", "t", "i", "o", "n", " ", "g", "r", "a", "n", "t", "e", "d", ",", " ", "a", "c", "t", "i", "v", "e">>,
          <<"l", "e", "a", "s", "e">>, <<Ref(<<"D", "O", "I">>, <<"B", "L", "M">>), Ref(<<"E", "P", "A">>, null)>>, <<>>,
          <<"b", "u", "r", "i", "a", "l", " ", "s", "i", "t", "e">>, <<"C", "R", "I", "T", "I", "C", "A", "L">>),
    Entry(<<"E", "D", "-", "4">>, <<"F", "i", "r", " ", "v", " ", "E", "D">>, <<"2", "5", "-", "4", "0", "4">>, <<"2", "0", "2", "4", "-", "0", "2", "-", "0", "2">>, <<"O", "n", " ", "w", "a", "t", "c", "h">>,
          <<"g", "r", "a", "n", "t">>, <<>>, <<<<"T", "r", "i", "b", "a", "l", " ", "c", "o", "l", "l", "e", "g", "e", "s">>, <<"B", "l", "a", "c", "k", " ", "c", "o", "l", "l", "e", "g", "e", "s">>>>,
          <<"o", "a", "k", " ", "g", "r", "o", "v", "e">>, <<"W", "A", "T", "C", "H">>),
    Entry(<<"N", "E", "H", "-", "5">>, <<"Y", "e", "w", " ", "v", " ", "N", "E", "H">>, <<"2", "5", "-", "5", "0", "5">>, <<"2", "0", "2", "5", "-", "0", "1", "-", "0", "9">>, <<"C", "l", "o", "s", "e", "d">>,
          <<"a", "r", "c", "h", "i", "v", "e">>, <<Ref(<<"N", "E", "H">>, null), Ref(<<"N", "E", "H">>, <<"O", "D", "H">>)>>, <<<<"T", "r", "i", "b", "a", "l", " ", "N", "a", "t", "i", "o", "n", "s">>>>,
          <<"o", "r", "a", "l", " ", "h", "i", "s", "t", "o", "r", "y">>, <<"M", "O", "D", "E", "R", "A", "T", "E">>) }

Metadata == [lastUpdated |-> "2025-01-15", version |-> "1.0"]

AgencyCategories == [cultural |-> <<"NEH", "NEA">>, land |-> <<"DOI", "EPA">>]

Document(entries) ==
  [ metadata |-> Metadata,
    litigationEntries |-> entries,
    agencyCategories |-> AgencyCategories ]

\* the file as fs.readFileSync / JSON.parse see it
JsonFile(entries) == [kind |-> "json", doc |-> Document(entries)]

MissingFile == [kind |-> "missing", doc |-> Document(<<>>)]

CorruptFile == [kind |-> "corrupt", doc |-> Document(<<>>)]

\* the value loadDatabase returns when the read or the parse throws
NullDb == [isNull |-> TRUE]

\* the catch branch of loadDatabase is taken: console.error writes the error
loadFails(f) == f.kind # "json"

\* the document as it was when the server started, whatever the file holds now
loadDatabase_atStartup(f) == Document(<<>>)

loadDatabase_emptyOnError(f) ==
  IF f.kind = "json" THEN f.doc ELSE Document(<<>>)

loadDatabase(f) ==
  IF f.kind = "json" THEN f.doc ELSE NullDb

(***************************************************************************)
(* Requests and responses.  url.searchParams.get(name) is params[name]:    *)
(* null when the parameter is absent, else its decoded text.               *)
(***************************************************************************)
ParamNames == {"classification", "agency", "community", "status", "id", "year", "q"}

NoParams == [n \in ParamNames |-> null]

Response(handler, code, body) ==
  [handler |-> handler, statusCode |-> code, body |-> body]

NoReq == [method |-> "-", pathname |-> <<>>, searchParams |-> NoParams]

NoRes == Response("-", 0, [none |-> TRUE])

DatabaseNotAvailable(handler) ==
  Response(handler, 500, [error |-> "Database not available"])

\* a TypeError thrown inside a handler: nothing catches it, no response is
\* written and the exception leaves the request listener
Uncaught(handler) == Response(handler, 0, [uncaught |-> "TypeError"])

(***************************************************************************)
(* handleLitigationAPI: the five optional filters, applied one after the   *)
(* other to the entries left by the previous one.                          *)
(***************************************************************************)
filterByClassification_caseSensitive(entries, classification) ==
  keep(entries, {i \in 1..Len(entries) : entries[i].classification = classification})

filterByClassification(entries, classification) ==
  keep(entries, {i \in 1..Len(entries) :
                   entries[i].classification = toUpperCase(classification)})

agencyMatches_codeOnly(a, agency) ==
  toUpperCase(a.agency) = toUpperCase(agency)

agencyMatches(a, agency) ==
  \/ toUpperCase(a.agency) = toUpperCase(agency)
  \/ (has(a, "subAgency") /\ Truthy(a.subAgency)
        /\ includes(toUpperCase(a.subAgency), toUpperCase(agency)))

filterByAgency(entries, agency) ==
  keep(entries, {i \in 1..Len(entries) :
                   \E k \in 1..Len(entries[i].agenciesInvolved) :
                     agencyMatches(entries[i].agenciesInvolved[k], agency)})

filterByCommunity(entries, community) ==
  keep(entries, {i \in 1..Len(entries) :
                   \E k \in 1..Len(entries[i].culturalImpactAnalysis.affectedCommunities) :
                     includes(toLowerCase(entries[i].culturalImpactAnalysis.affectedCommunities[k]),
                              toLowerCase(community))})

filterByStatus(entries, status) ==
  keep(entries, {i \in 1..Len(entries) :
                   includes(toLowerCase(entries[i].currentStatus), toLowerCase(status))})

filterById_ignoringCase(entries, id) ==
  keep(entries, {i \in 1..Len(entries) : toLowerCase(entries[i].id) = toLowerCase(id)})

filterById(entries, id) ==
  keep(entries, {i \in 1..Len(entries) : entries[i].id = id})

\* every filter applied to the whole collection, the last supplied one winning
filterEntries_lastWins(db, params) ==
  LET e0 == db.litigationEntries
      e1 == IF Truthy(params["classification"])
              THEN filterByClassification(e0, params["classification"]) ELSE e0
      e2 == IF Truthy(params["agency"]) THEN filterByAgency(e0, params["agency"]) ELSE e1
      e3 == IF Truthy(params["community"])
              THEN filterByCommunity(e0, params["community"]) ELSE e2
      e4 == IF Truthy(params["status"]) THEN filterByStatus(e0, params["status"]) ELSE e3
      e5 == IF Truthy(params["id"]) THEN filterById(e0, params["id"]) ELSE e4
  IN  e5

\* if (value) { entries = entries.filter(...) }, five times
filterEntries(db, params) ==
  LET e0 == db.litigationEntries
      e1 == IF Truthy(params["classification"])
              THEN filterByClassification(e0, params["classification"]) ELSE e0
      e2 == IF Truthy(params["agency"]) THEN filterByAgency(e1, params["agency"]) ELSE e1
      e3 == IF Truthy(params["community"])
              THEN filterByCommunity(e2, params["community"]) ELSE e2
      e4 == IF Truthy(params["status"]) THEN filterByStatus(e3, params["status"]) ELSE e3
      e5 == IF Truthy(params["id"]) THEN filterById(e4, params["id"]) ELSE e4
  IN  e5

\* e.culturalImpactAnalysis.affectedCommunities of a record without
\* culturalImpactAnalysis reads a property of undefined
readsUndefined(entries) ==
  \E i \in 1..Len(entries) : ~has(entries[i], "culturalImpactAnalysis")

\* the community filter runs over the entries the classification and agency
\* filters left
filterThrows(db, params) ==
  LET e0 == db.litigationEntries
      e1 == IF Truthy(params["classification"])
              THEN filterByClassification(e0, params["classification"]) ELSE e0
      e2 == IF Truthy(params["agency"]) THEN filterByAgency(e1, params["agency"]) ELSE e1
  IN  Truthy(params["community"]) /\ readsUndefined(e2)

\* a handler that reports an empty result as "not found"
handleLitigationAPI_notFound(f, params) ==
  LET db == loadDatabase(f)
  IN  IF db = NullDb THEN DatabaseNotAvailable("handleLitigationAPI")
      ELSE LET entries == filterEntries(db, params)
           IN  IF Len(entries) = 0
                 THEN Response("handleLitigationAPI", 404, [error |-> "No entries found"])
                 ELSE Response("handleLitigationAPI", 200,
                               [ count |-> Len(entries),
                                 entries |-> entries,
                                 metadata |-> db.metadata ])

handleLitigationAPI(f, params) ==
  LET db == loadDatabase(f)
  IN  IF db = NullDb THEN DatabaseNotAvailable("handleLitigationAPI")
      ELSE IF filterThrows(db, params) THEN Uncaught("handleLitigationAPI")
      ELSE LET entries == filterEntries(db, params)
           IN  Response("handleLitigationAPI", 200,
                        [ count |-> Len(entries),
                          entries |-> entries,
                          metadata |-> db.metadata ])

(***************************************************************************)
(* handleSearchAPI: every term of the query, cut at single spaces, must    *)
(* occur in the entry's lowercased searchable text.                        *)
(***************************************************************************)
searchTerms(query) == split(toLowerCase(query))

\* the fields put together without the separating space
searchableText_joinedTight(entry) ==
  toLowerCase(concat(<< entry.caseName,
                        entry.claimsAndLegalBasis.summary,
                        entry.culturalImpactAnalysis.narrativeAssessment >>
                     \o agencyCodes(entry.agenciesInvolved)
                     \o entry.culturalImpactAnalysis.affectedCommunities))

searchableText(entry) ==
  toLowerCase(join(<< entry.caseName,
                      entry.claimsAndLegalBasis.summary,
                      entry.culturalImpactAnalysis.narrativeAssessment >>
                   \o agencyCodes(entry.agenciesInvolved)
                   \o entry.culturalImpactAnalysis.affectedCommunities))

entryMatches_anyTerm(entry, terms) ==
  \E k \in 1..Len(terms) : includes(searchableText(entry), terms[k])

\* searchTerms.every(term => searchableText.includes(term))
entryMatches(entry, terms) ==
  \A k \in 1..Len(terms) : includes(searchableText(entry), terms[k])

\* the matches returned as summaries: only the fields the search looked at
searchResults_summaries(db, query) ==
  LET found == keep(db.litigationEntries,
                    {i \in 1..Len(db.litigationEntries) :
                       entryMatches(db.litigationEntries[i], searchTerms(query))})
  IN  [i \in 1..Len(found) |->
         [ id |-> found[i].id,
           caseName |-> found[i].caseName,
           claimsAndLegalBasis |-> found[i].claimsAndLegalBasis,
           agenciesInvolved |-> found[i].agenciesInvolved,
           culturalImpactAnalysis |-> found[i].culturalImpactAnalysis ]]

searchResults(db, query) ==
  keep(db.litigationEntries,
       {i \in 1..Len(db.litigationEntries) :
          entryMatches(db.litigationEntries[i], searchTerms(query))})

\* a handler that looks at the query before it loads the document
handleSearchAPI_queryFirst(f, params) ==
  LET db == loadDatabase(f)
      query == params["q"]
  IN  IF ~Truthy(query)
        THEN Response("handleSearchAPI", 400, [error |-> "Search query required"])
      ELSE IF db = NullDb THEN DatabaseNotAvailable("handleSearchAPI")
      ELSE LET results == searchResults(db, query)
           IN  Response("handleSearchAPI", 200,
                        [ query |-> query,
                          count |-> Len(results),
                          results |-> results ])

handleSearchAPI(f, params) ==
  LET db == loadDatabase(f)
      query == params["q"]
  IN  IF db = NullDb THEN DatabaseNotAvailable("handleSearchAPI")
      ELSE IF ~Truthy(query)
        THEN Response("handleSearchAPI", 400, [error |-> "Search query required"])
      ELSE LET results == searchResults(db, query)
           IN  Response("handleSearchAPI", 200,
                        [ query |-> query,
                          count |-> Len(results),
                          results |-> results ])

(***************************************************************************)
(* handleStatsAPI: the four reduce passes over the entries.                *)
(***************************************************************************)
\* acc[key] = (acc[key] || 0) + 1, always setting the key to 1
increment_reset(acc, key) ==
  [k \in DOMAIN acc \cup {key} |-> IF k = key THEN 1 ELSE acc[k]]

\* acc[key] = (acc[key] || 0) + 1
increment(acc, key) ==
  [k \in DOMAIN acc \cup {key} |->
     IF k = key THEN (IF k \in DOMAIN acc THEN acc[k] ELSE 0) + 1 ELSE acc[k]]

\* reduce over a sequence of keys, starting from the empty object {}
RECURSIVE countKeys(_)
countKeys(keys) ==
  IF Len(keys) = 0 THEN <<>>
  ELSE increment(countKeys(SubSeq(keys, 1, Len(keys) - 1)), keys[Len(keys)])

statusCategory_reviewFirst(currentStatus) ==
  LET status == toLowerCase(currentStatus)
  IN  IF includes(status, <<"i", "n", "j", "u", "n", "c", "t", "i", "o", "n", " ", "g", "r", "a", "n", "t", "e", "d">>)
           \/ includes(status, <<"j", "u", "d", "g", "m", "e", "n", "t", " ", "f", "o", "r", " ", "p", "l", "a", "i", "n", "t", "i", "f", "f", "s">>)
        THEN "Protective Outcomes"
      ELSE IF includes(status, <<"r", "e", "v", "i", "e", "w">>) \/ includes(status, <<"w", "a", "t", "c", "h">>)
        THEN "Under Review"
      ELSE IF includes(status, <<"a", "c", "t", "i", "v", "e">>) \/ includes(status, <<"p", "e", "n", "d", "i", "n", "g">>)
        THEN "Active Litigation"
      ELSE IF includes(status, <<"d", "i", "s", "m", "i", "s", "s", "e", "d">>) \/ includes(status, <<"w", "i", "t", "h", "d", "r", "e", "w">>)
        THEN "Dismissed/Withdrawn"
      ELSE "Other"

statusCategory(currentStatus) ==
  LET status == toLowerCase(currentStatus)
  IN  IF includes(status, <<"i", "n", "j", "u", "n", "c", "t", "i", "o", "n", " ", "g", "r", "a", "n", "t", "e", "d">>)
           \/ includes(status, <<"j", "u", "d", "g", "m", "e", "n", "t", " ", "f", "o", "r", " ", "p", "l", "a", "i", "n", "t", "i", "f", "f", "s">>)
        THEN "Protective Outcomes"
      ELSE IF includes(status, <<"a", "c", "t", "i", "v", "e">>) \/ includes(status, <<"p", "e", "n", "d", "i", "n", "g">>)
        THEN "Active Litigation"
      ELSE IF includes(status, <<"d", "i", "s", "m", "i", "s", "s", "e", "d">>) \/ includes(status, <<"w", "i", "t", "h", "d", "r", "e", "w">>)
        THEN "Dismissed/Withdrawn"
      ELSE IF includes(status, <<"r", "e", "v", "i", "e", "w">>) \/ includes(status, <<"w", "a", "t", "c", "h">>)
        THEN "Under Review"
      ELSE "Other"

byClassification(entries) ==
  countKeys([i \in 1..Len(entries) |-> entries[i].classification])

\* the codes of a record, each once: a count of records instead of entries
distinctCodes(refs) ==
  keep(agencyCodes(refs),
       {k \in 1..Len(refs) : \A j \in 1..(k - 1) : refs[j].agency # refs[k].agency})

byAgency_perRecord(entries) ==
  countKeys(concat([i \in 1..Len(entries) |-> distinctCodes(entries[i].agenciesInvolved)]))

byAgency(entries) ==
  countKeys(concat([i \in 1..Len(entries) |-> agencyCodes(entries[i].agenciesInvolved)]))

byCommunity(entries) ==
  countKeys(concat([i \in 1..Len(entries) |->
                      entries[i].culturalImpactAnalysis.affectedCommunities]))

byStatus(entries) ==
  countKeys([i \in 1..Len(entries) |-> statusCategory(entries[i].currentStatus)])

\* a handler that has no statistics to give for an empty collection
handleStatsAPI_noData(f, params) ==
  LET db == loadDatabase(f)
  IN  IF db = NullDb THEN DatabaseNotAvailable("handleStatsAPI")
      ELSE IF Len(db.litigationEntries) = 0
        THEN Response("handleStatsAPI", 404, [error |-> "No data"])
      ELSE LET entries == db.litigationEntries
           IN  Response("handleStatsAPI", 200,
                        [ totalEntries |-> Len(entries),
                          byClassification |-> byClassification(entries),
                          byAgency |-> byAgency(entries),
                          byCommunity |-> byCommunity(entries),
                          byStatus |-> byStatus(entries),
                          lastUpdated |-> db.metadata.lastUpdated ])

handleStatsAPI(f, params) ==
  LET db == loadDatabase(f)
  IN  IF db = NullDb THEN DatabaseNotAvailable("handleStatsAPI")
      ELSE IF readsUndefined(db.litigationEntries) THEN Uncaught("handleStatsAPI")
      ELSE LET entries == db.litigationEntries
           IN  Response("handleStatsAPI", 200,
                        [ totalEntries |-> Len(entries),
                          byClassification |-> byClassification(entries),
                          byAgency |-> byAgency(entries),
                          byCommunity |-> byCommunity(entries),
                          byStatus |-> byStatus(entries),
                          lastUpdated |-> db.metadata.lastUpdated ])

(***************************************************************************)
(* handleAgenciesAPI                                                       *)
(***************************************************************************)
handleAgenciesAPI(f, params) ==
  LET db == loadDatabase(f)
  IN  IF db = NullDb THEN DatabaseNotAvailable("handleAgenciesAPI")
      ELSE Response("handleAgenciesAPI", 200, db.agencyCategories)

(***************************************************************************)
(* The request callback of http.createServer: OPTIONS is answered at once, *)
(* else the first entry of API_ROUTES, in insertion order, whose route is  *)
(* a prefix of the pathname handles the request, else the static files.    *)
(***************************************************************************)
API_ROUTES ==
  << [route |-> <<"/", "a", "p", "i", "/", "l", "i", "t", "i", "g", "a", "t", "i", "o", "n">>, handler |-> "handleLitigationAPI"],
     [route |-> <<"/", "a", "p", "i", "/", "l", "i", "t", "i", "g", "a", "t", "i", "o", "n", "/", "s", "e", "a", "r", "c", "h">>, handler |-> "handleSearchAPI"],
     [route |-> <<"/", "a", "p", "i", "/", "l", "i", "t", "i", "g", "a", "t", "i", "o", "n", "/", "s", "t", "a", "t", "s">>, handler |-> "handleStatsAPI"],
     [route |-> <<"/", "a", "p", "i", "/", "a", "g", "e", "n", "c", "i", "e", "s">>, handler |-> "handleAgenciesAPI"] >>

routeMatches(pathname, route) == startsWith(pathname, route)

Matching(pathname) ==
  {i \in 1..Len(API_ROUTES) : routeMatches(pathname, API_ROUTES[i].route)}

\* the handler the for..of loop calls, "serveStaticFile" when it falls through
dispatch(pathname) ==
  IF Matching(pathname) = {} THEN "serveStaticFile"
  ELSE LET first == CHOOSE i \in Matching(pathname) :
                      \A j \in Matching(pathname) : i <= j
       IN  API_ROUTES[first].handler

PublicFiles == {<<"/", "i", "n", "d", "e", "x", ".", "h", "t", "m", "l">>, <<"/", "a", "p", "p", ".", "j", "s">>, <<"/", "s", "t", "y", "l", "e", "s", ".", "c", "s", "s">>}

serveStaticFile(pathname) ==
  LET p == IF pathname = <<"/">> THEN <<"/", "i", "n", "d", "e", "x", ".", "h", "t", "m", "l">> ELSE pathname
  IN  IF p \in PublicFiles
        THEN Response("serveStaticFile", 200, [data |-> p])
        ELSE Response("serveStaticFile", 404, [html |-> "404 - File Not Found"])

invoke(handler, f, params) ==
  CASE handler = "handleLitigationAPI" -> handleLitigationAPI(f, params)
    [] handler = "handleSearchAPI" -> handleSearchAPI(f, params)
    [] handler = "handleStatsAPI" -> handleStatsAPI(f, params)
    [] handler = "handleAgenciesAPI" -> handleAgenciesAPI(f, params)

requestListener(method, pathname, params, f) ==
  IF method = "OPTIONS" THEN Response("OPTIONS", 200, [empty |-> TRUE])
  ELSE IF dispatch(pathname) = "serveStaticFile" THEN serveStaticFile(pathname)
  ELSE invoke(dispatch(pathname), f, params)

(***************************************************************************)
(* filterAndSort of utils/filters.js.  Only its calls are in the           *)
(* repository (README of the modular package), so it is modelled from the  *)
(* Filter Composer contract: the criteria of the HTTP filter plus the year *)
(* of the record's primary date, all AND-combined, in collection order.    *)
(***************************************************************************)
YearLength == 4

\* the year component of an ISO date YYYY-MM-DD
yearOf(date) == SubSeq(date, 1, YearLength)

filterByYear_wholeDate(entries, year) ==
  keep(entries, {i \in 1..Len(entries) : entries[i].filingDate = year})

filterByYear(entries, year) ==
  keep(entries, {i \in 1..Len(entries) : yearOf(entries[i].filingDate) = year})

filterAndSort(documents, filters) ==
  LET e == filterEntries([litigationEntries |-> documents], filters)
  IN  IF Truthy(filters["year"]) THEN filterByYear(e, filters["year"]) ELSE e

(***************************************************************************)
(* searchWithRelevance of utils/search.js.  Only its calls are in the      *)
(* repository, so it is modelled from the Relevance Search contract: the   *)
(* AND-of-terms match, a score that weighs a hit in the title above a hit  *)
(* in a secondary field, minScore, a stable descending sort, maxResults.   *)
(* The contract leaves the weights open; these are the ones chosen.        *)
(***************************************************************************)
TitleWeight == 10

SecondaryWeight == 3

\* the secondary searchable fields of a record, one text each
secondaryFields(doc) ==
  << doc.claimsAndLegalBasis.summary,
     doc.culturalImpactAnalysis.narrativeAssessment >>
  \o agencyCodes(doc.agenciesInvolved)
  \o doc.culturalImpactAnalysis.affectedCommunities

\* the weighted hits of one term in one record
termScore(doc, term) ==
  (IF includes(toLowerCase(doc.caseName), term) THEN TitleWeight ELSE 0)
  + SecondaryWeight
      * Cardinality({k \in 1..Len(secondaryFields(doc)) :
                       includes(toLowerCase(secondaryFields(doc)[k]), term)})

RECURSIVE relevanceScore(_, _)
relevanceScore(doc, terms) ==
  IF Len(terms) = 0 THEN 0
  ELSE termScore(doc, terms[1]) + relevanceScore(doc, Tail(terms))

\* the scored matches, in collection order
scoredMatches(documents, terms, minScore) ==
  LET scored == [i \in 1..Len(documents) |->
                   [doc |-> documents[i], score |-> relevanceScore(documents[i], terms)]]
  IN  keep(scored, {i \in 1..Len(documents) :
                      entryMatches(documents[i], terms) /\ scored[i].score >= minScore})

\* x put behind every item whose score is at least its own
RECURSIVE insertRanked(_, _)
insertRanked(ranked, x) ==
  IF Len(ranked) = 0 THEN <<x>>
  ELSE IF ranked[1].score >= x.score THEN <<ranked[1]>> \o insertRanked(Tail(ranked), x)
  ELSE <<x>> \o ranked

\* a sort that leaves the matches in collection order
sortByScore_unsorted(items) == items

\* stable sort by descending score
RECURSIVE sortByScore(_)
sortByScore(items) ==
  IF Len(items) = 0 THEN <<>>
  ELSE insertRanked(sortByScore(SubSeq(items, 1, Len(items) - 1)), items[Len(items)])

\* the non-empty pieces of the lowercased query between whitespace
RECURSIVE tokensFrom(_, _, _)
tokensFrom(s, i, cur) ==
  IF i > Len(s) THEN (IF Len(cur) = 0 THEN <<>> ELSE <<cur>>)
  ELSE IF s[i] \in {" ", "\t", "\n"}
    THEN (IF Len(cur) = 0 THEN <<>> ELSE <<cur>>) \o tokensFrom(s, i + 1, <<>>)
  ELSE tokensFrom(s, i + 1, Append(cur, s[i]))

tokenize(query) == tokensFrom(toLowerCase(query), 1, <<>>)

\* maxResults = 0 stands for no limit
searchWithRelevance(documents, query, options) ==
  LET ranked == sortByScore(scoredMatches(documents, tokenize(query), options.minScore))
      n == IF options.maxResults = 0 \/ options.maxResults > Len(ranked)
             THEN Len(ranked) ELSE options.maxResults
  IN  SubSeq(ranked, 1, n)

(***************************************************************************)
(* Inputs: the query strings and pathnames the requests are drawn from.    *)
(***************************************************************************)
ClassificationValues == {null, <<>>, <<"c", "r", "i", "t", "i", "c", "a", "l">>, <<"C", "r", "i", "t", "i", "c", "a", "l">>, <<"C", "R", "I", "T", "I", "C", "A", "L">>, <<"w", "a", "t", "c", "h">>}

AgencyValues == {null, <<"e", "p", "a">>, <<"N", "p", "s">>, <<"D", "O">>, <<"d", "o", "i">>}

CommunityValues == {null, <<>>, <<"t", "r", "i", "b", "a", "l">>}

StatusValues == {null, <<"A", "C", "T", "I", "V", "E">>}

IdValues == {null, <<"E", "P", "A", "-", "1">>, <<"e", "p", "a", "-", "1">>}

Criteria ==
  { [NoParams EXCEPT !["classification"] = c, !["agency"] = a,
                     !["community"] = m, !["status"] = s, !["id"] = i] :
      c \in ClassificationValues, a \in AgencyValues, m \in CommunityValues,
      s \in StatusValues, i \in IdValues }

QueryValues ==
  { null, <<>>, <<" ">>, <<"w", "a", "t", "e", "r">>, <<"O", "a", "k", " ", "R", "i", "v", "e", "r">>, <<"o", "a", "k", " ", " ", "r", "i", "v", "e", "r">>, <<"e", "p", "a">>, <<"z", "z", "z">>,
    <<"o", "l", "d", " ", "w", "a", "t", "e", "r">>, <<"o", "a", "k", "\t", "r", "i", "v", "e", "r">>, <<"e", "p", "a", "c", "l", "e", "a", "n">>, <<"n", "p", "s">> }

Queries == {[NoParams EXCEPT !["q"] = q] : q \in QueryValues}

Methods == {"GET", "OPTIONS"}

Pathnames ==
  { <<"/", "a", "p", "i", "/", "l", "i", "t", "i", "g", "a", "t", "i", "o", "n">>, <<"/", "a", "p", "i", "/", "l", "i", "t", "i", "g", "a", "t", "i", "o", "n", "/", "s", "e", "a", "r", "c", "h">>, <<"/", "a", "p", "i", "/", "l", "i", "t", "i", "g", "a", "t", "i", "o", "n", "/", "s", "t", "a", "t", "s">>,
    <<"/", "a", "p", "i", "/", "a", "g", "e", "n", "c", "i", "e", "s">>, <<"/">>, <<"/", "a", "p", "p", ".", "j", "s">>, <<"/", "n", "o", "p", "e", ".", "t", "x", "t">> }

ServedParams ==
  { NoParams,
    [NoParams EXCEPT !["q"] = <<"w", "a", "t", "e", "r">>],
    [NoParams EXCEPT !["classification"] = <<"c", "r", "i", "t", "i", "c", "a", "l">>],
    [NoParams EXCEPT !["q"] = <<"o", "a", "k">>, !["agency"] = <<"e", "p", "a">>] }

(***************************************************************************)
(* State: the backing file, the request being answered with its response   *)
(* (NoReq / NoRes between two exchanges), and whether loadDatabase has     *)
(* written an error to the console.  A handler runs to completion          *)
(* (readFileSync, no await), so an exchange is one step.                   *)
(***************************************************************************)
Idle == req = NoReq /\ res = NoRes

\* JavaScript values of the page state: an array, undefined, null, an object
Array(items) == [type |-> "array", items |-> items]

undefined == [type |-> "undefined"]

JsNull == [type |-> "null"]

Object(value) == [type |-> "object", value |-> value]

\* data[name] of a parsed response body, for a property holding an array
arrayProperty(data, name) ==
  IF has(data, name) THEN Array(data[name]) ELSE undefined

\* the most recently started search: none yet
NoSearch == [id |-> 0, query |-> null, failed |-> FALSE]

NoEvent == [name |-> "-"]

\* history: the first filter exchange since the file was last written, and
\* whether another request has been served since
NoEarlier == [none |-> TRUE]

otherRequest(e) == IF e = NoEarlier THEN e ELSE [e EXCEPT !.between = TRUE]

Ids(entries) == {entries[i].id : i \in 1..Len(entries)}

Init ==
  /\ file = JsonFile(<<>>)
  /\ req = NoReq
  /\ res = NoRes
  /\ errorLogged = FALSE
  /\ earlier = NoEarlier
  /\ ready = FALSE
  /\ allEntries = Array(<<>>)
  /\ filteredEntries = Array(<<>>)
  /\ stats = JsNull
  /\ pending = {}
  /\ started = 0
  /\ latest = NoSearch
  /\ lastEvent = NoEvent
  /\ failed = {}
  /\ showCriteria = FALSE
  /\ showFramework = FALSE
  /\ showAgencies = FALSE

\* an editor appends an entry to litigationEntries (ids stay unique)
AddEntry ==
  /\ Idle
  /\ file.kind = "json"
  /\ Len(file.doc.litigationEntries) < MaxEntries
  /\ \E e \in EntryPool :
       /\ e.id \notin Ids(file.doc.litigationEntries)
       /\ file' = JsonFile(Append(file.doc.litigationEntries, e))
  /\ earlier' = NoEarlier
  /\ UNCHANGED <<req, res, errorLogged>>
  /\ UNCHANGED <<clientVars, viewVars>>

\* the file is removed or unreadable: readFileSync throws
RemoveFile ==
  /\ Idle
  /\ file.kind = "json"
  /\ file' = MissingFile
  /\ earlier' = NoEarlier
  /\ UNCHANGED <<req, res, errorLogged>>
  /\ UNCHANGED <<clientVars, viewVars>>

\* the file is left with invalid JSON: JSON.parse throws
BreakFile ==
  /\ Idle
  /\ file.kind = "json"
  /\ file' = CorruptFile
  /\ earlier' = NoEarlier
  /\ UNCHANGED <<req, res, errorLogged>>
  /\ UNCHANGED <<clientVars, viewVars>>

\* the file is written again as a valid document
RestoreFile ==
  /\ Idle
  /\ file.kind # "json"
  /\ file' = JsonFile(<<>>)
  /\ earlier' = NoEarlier
  /\ UNCHANGED <<req, res, errorLogged>>
  /\ UNCHANGED <<clientVars, viewVars>>

\* an exception left the request listener: nothing catches it (no try around
\* the handler call, no uncaughtException listener) and node ends the process
Crashed == has(res.body, "uncaught")

\* the response has been written and the exchange is over
Finish ==
  /\ ~Idle
  /\ ~Crashed
  /\ req' = NoReq
  /\ res' = NoRes
  /\ UNCHANGED <<file, errorLogged, earlier>>
  /\ UNCHANGED <<clientVars, viewVars>>

\* a request arrives at the server and is answered by the request callback
Serve ==
  /\ Idle
  /\ \E method \in Methods, pathname \in Pathnames, params \in ServedParams :
       /\ req' = [method |-> method, pathname |-> pathname, searchParams |-> params]
       /\ res' = requestListener(method, pathname, params, file)
       /\ errorLogged' = (errorLogged \/ (method # "OPTIONS"
                                            /\ dispatch(pathname) # "serveStaticFile"
                                            /\ loadFails(file)))
  /\ UNCHANGED <<file, earlier>>
  /\ UNCHANGED <<clientVars, viewVars>>

Next == Serve \/ Finish \/ AddEntry \/ RemoveFile \/ BreakFile \/ RestoreFile

Spec == Init /\ [][Next]_vars

(***************************************************************************)
(* The handlers applied directly to a url, as a caller of the functions    *)
(* would: the specification of the claims about one handler.               *)
(***************************************************************************)
Request(pathname, params) ==
  [method |-> "GET", pathname |-> pathname, searchParams |-> params]

CallLitigationAPI ==
  /\ Idle
  /\ \E params \in Criteria :
       /\ req' = Request(<<"/", "a", "p", "i", "/", "l", "i", "t", "i", "g", "a", "t", "i", "o", "n">>, params)
       /\ res' = handleLitigationAPI(file, params)
  /\ errorLogged' = (errorLogged \/ loadFails(file))
  /\ UNCHANGED <<file, earlier>>
  /\ UNCHANGED <<clientVars, viewVars>>

CallSearchAPI ==
  /\ Idle
  /\ \E params \in Queries :
       /\ req' = Request(<<"/", "a", "p", "i", "/", "l", "i", "t", "i", "g", "a", "t", "i", "o", "n", "/", "s", "e", "a", "r", "c", "h">>, params)
       /\ res' = handleSearchAPI(file, params)
  /\ errorLogged' = (errorLogged \/ loadFails(file))
  /\ earlier' = otherRequest(earlier)
  /\ UNCHANGED file
  /\ UNCHANGED <<clientVars, viewVars>>

CallStatsAPI ==
  /\ Idle
  /\ req' = Request(<<"/", "a", "p", "i", "/", "l", "i", "t", "i", "g", "a", "t", "i", "o", "n", "/", "s", "t", "a", "t", "s">>, NoParams)
  /\ res' = handleStatsAPI(file, NoParams)
  /\ errorLogged' = (errorLogged \/ loadFails(file))
  /\ earlier' = otherRequest(earlier)
  /\ UNCHANGED file
  /\ UNCHANGED <<clientVars, viewVars>>

CallAgenciesAPI ==
  /\ Idle
  /\ req' = Request(<<"/", "a", "p", "i", "/", "a", "g", "e", "n", "c", "i", "e", "s">>, NoParams)
  /\ res' = handleAgenciesAPI(file, NoParams)
  /\ errorLogged' = (errorLogged \/ loadFails(file))
  /\ UNCHANGED <<file, earlier>>
  /\ UNCHANGED <<clientVars, viewVars>>

HandlerNext ==
  \/ CallLitigationAPI \/ CallSearchAPI \/ CallStatsAPI \/ CallAgenciesAPI
  \/ Finish \/ AddEntry \/ RemoveFile \/ BreakFile \/ RestoreFile

HandlerSpec == Init /\ [][HandlerNext]_vars

(***************************************************************************)
(* The utilities of the modular package called on the loaded collection.   *)
(***************************************************************************)
YearValues == {null, <<>>, <<"2", "0", "2", "5">>, <<"2", "0", "2", "4">>, <<"2", "0", "2", "3">>}

FilterStates ==
  { [NoParams EXCEPT !["year"] = y, !["classification"] = c, !["community"] = m] :
      y \in YearValues, c \in {null, <<"c", "r", "i", "t", "i", "c", "a", "l">>}, m \in {null, <<"t", "r", "i", "b", "a", "l">>} }

Invocation(name, params) ==
  [method |-> "call", pathname |-> name, searchParams |-> params]

CallFilterAndSort ==
  /\ Idle
  /\ file.kind = "json"
  /\ \E filters \in FilterStates :
       /\ req' = Invocation(<<"f", "i", "l", "t", "e", "r", "A", "n", "d", "S", "o", "r", "t">>, filters)
       /\ res' = Response("filterAndSort", 0,
                          [entries |-> filterAndSort(file.doc.litigationEntries, filters)])
  /\ UNCHANGED <<file, errorLogged, earlier>>
  /\ UNCHANGED <<clientVars, viewVars>>

RelevanceQueries == {<<"o", "a", "k">>, <<"W", "a", "t", "e", "r">>, <<"t", "r", "i", "b", "a", "l">>, <<"e", "p", "a">>, <<"o", "a", "k", " ", "r", "i", "v", "e", "r">>}

SearchOptions ==
  {[minScore |-> m, maxResults |-> n] : m \in {0, TitleWeight}, n \in {0, 1}}

CallSearchWithRelevance ==
  /\ Idle
  /\ file.kind = "json"
  /\ \E query \in RelevanceQueries, options \in SearchOptions :
       /\ req' = [ method |-> "call", pathname |-> <<"s", "e", "a", "r", "c", "h", "W", "i", "t", "h", "R", "e", "l", "e", "v", "a", "n", "c", "e">>,
                   searchParams |-> [NoParams EXCEPT !["q"] = query],
                   options |-> options ]
       /\ res' = Response("searchWithRelevance", 0,
                          [results |-> searchWithRelevance(file.doc.litigationEntries,
                                                           query, options)])
  /\ UNCHANGED <<file, errorLogged, earlier>>
  /\ UNCHANGED <<clientVars, viewVars>>

UtilNext ==
  \/ CallFilterAndSort \/ CallSearchWithRelevance
  \/ Finish \/ AddEntry \/ RemoveFile \/ BreakFile \/ RestoreFile

UtilSpec == Init /\ [][UtilNext]_vars

(***************************************************************************)
(* Records that carry only an id, a classification, agency references and  *)
(* a status text; the handlers called on a file of such records.           *)
(***************************************************************************)
MinimalRef(code) == [agency |-> code]

MinimalEntry(id, class, refs, status) ==
  [ id |-> id,
    classification |-> class,
    agenciesInvolved |-> refs,
    currentStatus |-> status ]

RecordA == MinimalEntry(<<"A">>, <<"C", "R", "I", "T", "I", "C", "A", "L">>, <<MinimalRef(<<"E", "P", "A">>)>>, <<"A", "c", "t", "i", "v", "e">>)

RecordB == MinimalEntry(<<"B">>, <<"P", "R", "O", "T", "E", "C", "T", "I", "V", "E">>, <<MinimalRef(<<"D", "O", "I">>)>>, <<"D", "i", "s", "m", "i", "s", "s", "e", "d">>)

RecordC == MinimalEntry(<<"C">>, <<"W", "A", "T", "C", "H">>, <<MinimalRef(<<"E", "D">>)>>, <<"O", "n", " ", "w", "a", "t", "c", "h">>)

MinimalPool == {RecordA, RecordB, RecordC}

AddMinimalEntry ==
  /\ Idle
  /\ file.kind = "json"
  /\ Len(file.doc.litigationEntries) < MaxEntries
  /\ \E e \in MinimalPool :
       /\ e.id \notin Ids(file.doc.litigationEntries)
       /\ file' = JsonFile(Append(file.doc.litigationEntries, e))
  /\ earlier' = NoEarlier
  /\ UNCHANGED <<req, res, errorLogged>>
  /\ UNCHANGED <<clientVars, viewVars>>

MinimalNext ==
  \/ CallLitigationAPI \/ CallStatsAPI \/ Finish \/ AddMinimalEntry

MinimalSpec == Init /\ [][MinimalNext]_vars

(***************************************************************************)
(* The filter handler called again and again on a file, with search and    *)
(* statistics requests in between.                                         *)
(***************************************************************************)
RepeatCriteria ==
  { [NoParams EXCEPT !["classification"] = c, !["agency"] = a, !["community"] = m] :
      c \in {null, <<"c", "r", "i", "t", "i", "c", "a", "l">>}, a \in {null, <<"d", "o", "i">>}, m \in {null, <<"t", "r", "i", "b", "a", "l">>} }

remember(e, params, response) ==
  IF e = NoEarlier
    THEN [searchParams |-> params, res |-> response, between |-> FALSE]
  ELSE IF e.searchParams = params THEN e
  ELSE [e EXCEPT !.between = TRUE]

\* a handler that answers the repeat of a request with "not modified"
RepeatLitigationAPI_notModified ==
  /\ Idle
  /\ \E params \in RepeatCriteria :
       /\ req' = Request(<<"/", "a", "p", "i", "/", "l", "i", "t", "i", "g", "a", "t", "i", "o", "n">>, params)
       /\ res' = IF earlier # NoEarlier /\ earlier.searchParams = params
                   THEN Response("handleLitigationAPI", 304, [none |-> TRUE])
                   ELSE handleLitigationAPI(file, params)
       /\ earlier' = remember(earlier, params, res')
  /\ errorLogged' = (errorLogged \/ loadFails(file))
  /\ UNCHANGED file
  /\ UNCHANGED <<clientVars, viewVars>>

RepeatLitigationAPI ==
  /\ Idle
  /\ \E params \in RepeatCriteria :
       /\ req' = Request(<<"/", "a", "p", "i", "/", "l", "i", "t", "i", "g", "a", "t", "i", "o", "n">>, params)
       /\ res' = handleLitigationAPI(file, params)
       /\ earlier' = remember(earlier, params, res')
  /\ errorLogged' = (errorLogged \/ loadFails(file))
  /\ UNCHANGED file
  /\ UNCHANGED <<clientVars, viewVars>>

RepeatNext ==
  \/ RepeatLitigationAPI \/ CallSearchAPI \/ CallStatsAPI
  \/ Finish \/ AddEntry \/ RemoveFile \/ BreakFile \/ RestoreFile

RepeatSpec == Init /\ [][RepeatNext]_vars

(***************************************************************************)
(* The frontend of public/app.js: the page state allEntries,               *)
(* filteredEntries and stats, the searches whose fetch has not resolved    *)
(* yet, and the server of server.js behind fetch.  History: the search     *)
(* started last, the event handled last, and the functions that ended in   *)
(* an uncaught TypeError.                                                  *)
(***************************************************************************)
MaxSearches == 2

WhiteSpaceCharacters == {" ", "\t", "\n"}

RECURSIVE trimStart(_)
trimStart(s) ==
  IF Len(s) > 0 /\ s[1] \in WhiteSpaceCharacters THEN trimStart(Tail(s)) ELSE s

RECURSIVE trimEnd(_)
trimEnd(s) ==
  IF Len(s) > 0 /\ s[Len(s)] \in WhiteSpaceCharacters
    THEN trimEnd(SubSeq(s, 1, Len(s) - 1)) ELSE s

\* String.prototype.trim()
trim(s) == trimEnd(trimStart(s))

\* encodeURIComponent: letters stay, the other characters become %XX
RECURSIVE encodeURIComponent(_)
encodeURIComponent(s) ==
  IF Len(s) = 0 THEN <<>>
  ELSE (CASE s[1] = " " -> <<"%", "2", "0">>
          [] s[1] = "\t" -> <<"%", "0", "9">>
          [] s[1] = "%" -> <<"%", "2", "5">>
          [] OTHER -> <<s[1]>>) \o encodeURIComponent(Tail(s))

\* the decoding of a query value by new URL(...).searchParams
RECURSIVE decode(_)
decode(s) ==
  IF Len(s) = 0 THEN <<>>
  ELSE IF s[1] = "%" /\ Len(s) >= 3
    THEN (CASE SubSeq(s, 2, 3) = <<"2", "0">> -> <<" ">>
            [] SubSeq(s, 2, 3) = <<"0", "9">> -> <<"\t">>
            [] SubSeq(s, 2, 3) = <<"2", "5">> -> <<"%">>
            [] OTHER -> SubSeq(s, 1, 3)) \o decode(SubSeq(s, 4, Len(s)))
  ELSE <<s[1]>> \o decode(Tail(s))

\* await fetch(url) and response.json(): the body the server writes for a
\* GET of the url; the status code is not looked at
fetchJson(pathname, params, f) == requestListener("GET", pathname, params, f).body

searchUrlParams(query) == [NoParams EXCEPT !["q"] = decode(encodeURIComponent(query))]

\* applyFilters with the values of the three select elements
entryPasses(entry, values) ==
  /\ ~(Truthy(values.classification) /\ entry.classification # values.classification)
  /\ ~(Truthy(values.agency)
         /\ ~\E k \in 1..Len(entry.agenciesInvolved) :
               entry.agenciesInvolved[k].agency = values.agency)
  /\ ~(Truthy(values.community)
         /\ ~\E k \in 1..Len(entry.culturalImpactAnalysis.affectedCommunities) :
               includes(toLowerCase(entry.culturalImpactAnalysis.affectedCommunities[k]),
                        toLowerCase(values.community)))

clientFilter(entries, values) ==
  keep(entries, {i \in 1..Len(entries) : entryPasses(entries[i], values)})

\* renderDashboard reads stats.byClassification.CRITICAL when stats is set
dashboardThrows(s) == s.type = "object" /\ ~has(s.value, "byClassification")

\* renderLitigationList calls filteredEntries.map
listThrows(entries) == entries.type # "array"

entryById(id) == CHOOSE e \in EntryPool : e.id = id

PublishedFiles ==
  { JsonFile(<<>>),
    JsonFile(<<entryById(<<"E", "P", "A", "-", "1">>), entryById(<<"D", "O", "I", "-", "2">>)>>),
    JsonFile(<<entryById(<<"D", "O", "I", "-", "3">>), entryById(<<"D", "O", "I", "-", "2">>), entryById(<<"N", "E", "H", "-", "5">>)>>),
    MissingFile }

SearchInputs == {<<>>, <<" ", " ">>, <<" ", "w", "a", "t", "e", "r", " ">>, <<"z", "z", "z">>}

FilterValues ==
  { [classification |-> c, agency |-> a, community |-> m] :
      c \in {<<>>, <<"C", "R", "I", "T", "I", "C", "A", "L">>}, a \in {<<>>, <<"D", "O", "I">>, <<"N", "P", "S">>}, m \in {<<>>, <<"t", "r", "i", "b", "a", "l">>} }

\* the data file as it is when the page is opened
Publish ==
  /\ ~ready
  /\ \E f \in PublishedFiles : file' = f
  /\ UNCHANGED <<req, res, errorLogged, earlier, clientVars, viewVars>>

\* DOMContentLoaded: loadData, setupEventListeners, renderDashboard
LoadData ==
  /\ ~ready
  /\ ready' = TRUE
  /\ \E entriesFetched \in BOOLEAN, statsFetched \in BOOLEAN :
       LET entriesData == fetchJson(<<"/", "a", "p", "i", "/", "l", "i", "t", "i", "g", "a", "t", "i", "o", "n">>, NoParams, file)
           loaded == arrayProperty(entriesData, "entries")
       IN  IF ~entriesFetched
             THEN /\ UNCHANGED <<allEntries, filteredEntries, stats, errorLogged>>
                  /\ failed' = failed
           ELSE IF loaded = undefined
             THEN /\ allEntries' = undefined
                  /\ errorLogged' = (errorLogged \/ loadFails(file))
                  /\ failed' = failed
                  /\ UNCHANGED <<filteredEntries, stats>>
           ELSE /\ allEntries' = loaded
                /\ filteredEntries' = loaded
                /\ stats' = IF statsFetched
                              THEN Object(fetchJson(<<"/", "a", "p", "i", "/", "l", "i", "t", "i", "g", "a", "t", "i", "o", "n", "/", "s", "t", "a", "t", "s">>, NoParams, file))
                              ELSE stats
                /\ errorLogged' = (errorLogged \/ loadFails(file))
                /\ failed' = IF dashboardThrows(stats')
                               THEN failed \cup {"renderDashboard"} ELSE failed
  /\ UNCHANGED <<file, req, res, earlier, pending, started, latest, lastEvent, viewVars>>

\* the search button or Enter: performSearch up to its await
PerformSearch ==
  /\ ready
  /\ \E input \in SearchInputs :
       LET query == trim(input)
       IN  IF ~Truthy(query)
             THEN /\ IF allEntries.type = "array"
                       THEN filteredEntries' = allEntries /\ failed' = failed
                       ELSE /\ failed' = failed \cup {"performSearch"}
                            /\ UNCHANGED filteredEntries
                  /\ latest' = [id |-> 0, query |-> query, failed |-> FALSE]
                  /\ lastEvent' = [name |-> "performSearch", input |-> input, sent |-> FALSE]
                  /\ UNCHANGED <<pending, started>>
             ELSE /\ started < MaxSearches
                  /\ started' = started + 1
                  /\ pending' = pending \cup {[id |-> started + 1, query |-> query]}
                  /\ latest' = [id |-> started + 1, query |-> query, failed |-> FALSE]
                  /\ lastEvent' = [name |-> "performSearch", input |-> input, sent |-> TRUE]
                  /\ UNCHANGED <<filteredEntries, failed>>
  /\ UNCHANGED <<file, req, res, errorLogged, earlier, ready, allEntries, stats, viewVars>>

\* the fetch of a search resolves or rejects: performSearch after its await
SearchResponse ==
  /\ \E search \in pending, fetched \in BOOLEAN :
       LET data == fetchJson(<<"/", "a", "p", "i", "/", "l", "i", "t", "i", "g", "a", "t", "i", "o", "n", "/", "s", "e", "a", "r", "c", "h">>, searchUrlParams(search.query), file)
       IN  /\ pending' = pending \ {search}
           /\ filteredEntries' = IF fetched THEN arrayProperty(data, "results")
                                 ELSE filteredEntries
           /\ errorLogged' = (errorLogged \/ (fetched /\ loadFails(file)))
           /\ failed' = IF listThrows(filteredEntries')
                          THEN failed \cup {"renderLitigationList"} ELSE failed
           /\ latest' = IF search.id = latest.id /\ ~fetched
                          THEN [latest EXCEPT !.failed = TRUE] ELSE latest
           /\ lastEvent' = [name |-> "searchResponse", query |-> search.query,
                            fetched |-> fetched, data |-> IF fetched THEN data ELSE [none |-> TRUE]]
  /\ UNCHANGED <<file, req, res, earlier, ready, allEntries, stats, started, viewVars>>

\* a change of one of the three filter selects: applyFilters
ApplyFilters ==
  /\ ready
  /\ \E values \in FilterValues :
       /\ IF allEntries.type = "array"
            THEN /\ filteredEntries' = Array(clientFilter(allEntries.items, values))
                 /\ failed' = failed
            ELSE /\ failed' = failed \cup {"applyFilters"}
                 /\ UNCHANGED filteredEntries
       /\ lastEvent' = [name |-> "applyFilters", values |-> values]
  /\ UNCHANGED <<file, req, res, errorLogged, earlier, ready, allEntries, stats,
                 pending, started, latest, viewVars>>

ClientNext ==
  \/ Publish \/ LoadData \/ PerformSearch \/ SearchResponse \/ ApplyFilters

ClientSpec == Init /\ [][ClientNext]_vars

(***************************************************************************)
(* ReferenceSections: the three collapsible panels, each shown or hidden   *)
(* by its own useState flag, on a page that also calls filterAndSort.      *)
(***************************************************************************)
\* a click that opens one panel and closes the two others
ToggleCriteria_accordion ==
  /\ showCriteria' = ~showCriteria
  /\ showFramework' = FALSE
  /\ showAgencies' = FALSE
  /\ UNCHANGED <<file, req, res, errorLogged, earlier, clientVars>>

\* onClick={() => setShowCriteria(!showCriteria)}
ToggleCriteria ==
  /\ showCriteria' = ~showCriteria
  /\ UNCHANGED <<file, req, res, errorLogged, earlier, clientVars,
                 showFramework, showAgencies>>

\* onClick={() => setShowFramework(!showFramework)}
ToggleFramework ==
  /\ showFramework' = ~showFramework
  /\ UNCHANGED <<file, req, res, errorLogged, earlier, clientVars,
                 showCriteria, showAgencies>>

\* onClick={() => setShowAgencies(!showAgencies)}
ToggleAgencies ==
  /\ showAgencies' = ~showAgencies
  /\ UNCHANGED <<file, req, res, errorLogged, earlier, clientVars,
                 showCriteria, showFramework>>

ViewNext ==
  \/ ToggleCriteria \/ ToggleFramework \/ ToggleAgencies
  \/ CallFilterAndSort \/ Finish \/ AddEntry

ViewSpec == Init /\ [][ViewNext]_vars

(***************************************************************************)
(* Vocabulary of the claims: what the specification calls matching,        *)
(* stated without the handlers' code.                                      *)
(***************************************************************************)
Stored == file.doc.litigationEntries

Loadable == file.kind = "json"

Answered(handler, code) == res.handler = handler /\ res.statusCode = code

Supplied(v) == v # null /\ v # <<>>

SameIgnoringCase(a, b) == toLowerCase(a) = toLowerCase(b)

ContainsIgnoringCase(s, t) == includes(toLowerCase(s), toLowerCase(t))

MeetsClassification(e, c) == SameIgnoringCase(e.classification, c)

MeetsAgency(e, c) ==
  \E i \in 1..Len(e.agenciesInvolved) :
    LET a == e.agenciesInvolved[i]
    IN  \/ SameIgnoringCase(a.agency, c)
        \/ (a.subAgency # null /\ ContainsIgnoringCase(a.subAgency, c))

MeetsCommunity(e, c) ==
  \E i \in 1..Len(e.culturalImpactAnalysis.affectedCommunities) :
    ContainsIgnoringCase(e.culturalImpactAnalysis.affectedCommunities[i], c)

MeetsStatus(e, c) == ContainsIgnoringCase(e.currentStatus, c)

MeetsAll(e, p) ==
  /\ Supplied(p["classification"]) => MeetsClassification(e, p["classification"])
  /\ Supplied(p["agency"]) => MeetsAgency(e, p["agency"])
  /\ Supplied(p["community"]) => MeetsCommunity(e, p["community"])
  /\ Supplied(p["status"]) => MeetsStatus(e, p["status"])
  /\ Supplied(p["id"]) => e.id = p["id"]

OnlySupplied(p, name) ==
  \A n \in ParamNames \ {"q"} : Supplied(p[n]) <=> n = name

InSeq(x, s) == \E i \in 1..Len(s) : s[i] = x

\* C1: a GET to /api/litigation/search is answered by the search handler
\* (body {query, count, results}, or 400 when q is missing), a GET to
\* /api/litigation/stats by the statistics handler (body {totalEntries,
\* byClassification, byAgency, byCommunity, byStatus, lastUpdated}) and a GET
\* to /api/litigation by the filter handler (body {count, entries, metadata}).
C1_RouteDispatch ==
  (req.method = "GET" /\ Loadable) =>
    /\ req.pathname = <<"/", "a", "p", "i", "/", "l", "i", "t", "i", "g", "a", "t", "i", "o", "n", "/", "s", "e", "a", "r", "c", "h">> =>
         /\ res.handler = "handleSearchAPI"
         /\ IF Supplied(req.searchParams["q"])
              THEN res.statusCode = 200
                   /\ DOMAIN res.body = {"query", "count", "results"}
              ELSE res.statusCode = 400
    /\ req.pathname = <<"/", "a", "p", "i", "/", "l", "i", "t", "i", "g", "a", "t", "i", "o", "n", "/", "s", "t", "a", "t", "s">> =>
         /\ Answered("handleStatsAPI", 200)
         /\ DOMAIN res.body = {"totalEntries", "byClassification", "byAgency",
                               "byCommunity", "byStatus", "lastUpdated"}
    /\ req.pathname = <<"/", "a", "p", "i", "/", "l", "i", "t", "i", "g", "a", "t", "i", "o", "n">> =>
         /\ Answered("handleLitigationAPI", 200)
         /\ DOMAIN res.body = {"count", "entries", "metadata"}

\* C2: the filter handler returns exactly the stored records that satisfy
\* every supplied criterion; an absent or empty criterion does not constrain,
\* so a request without criteria returns the whole collection.
C2_FilterComposition ==
  Answered("handleLitigationAPI", 200) =>
    /\ res.body.entries = SelectSeq(Stored, LAMBDA e : MeetsAll(e, req.searchParams))
    /\ res.body.count = Len(res.body.entries)
    /\ (\A n \in ParamNames : ~Supplied(req.searchParams[n])) =>
         res.body.entries = Stored

\* two criteria are supplied, a stored record meets the first but not the
\* second, and another record meets both
C2_Witness ==
  /\ Answered("handleLitigationAPI", 200)
  /\ Supplied(req.searchParams["classification"])
  /\ Supplied(req.searchParams["community"])
  /\ req.searchParams["agency"] = <<>> \/ req.searchParams["agency"] = null
  /\ Len(res.body.entries) = 1
  /\ \E i \in 1..Len(Stored) :
       /\ MeetsClassification(Stored[i], req.searchParams["classification"])
       /\ ~MeetsCommunity(Stored[i], req.searchParams["community"])

\* the terms of a query: its pieces between spaces, lowercased
Terms(query) == SelectSeq(split(toLowerCase(query)), LAMBDA t : t # <<>>)

\* the concatenated searchable text of a record
Searchable(e) ==
  join(<<e.caseName, e.claimsAndLegalBasis.summary,
         e.culturalImpactAnalysis.narrativeAssessment>>
       \o [i \in 1..Len(e.agenciesInvolved) |-> e.agenciesInvolved[i].agency]
       \o e.culturalImpactAnalysis.affectedCommunities)

HasTerm(e, t) == ContainsIgnoringCase(Searchable(e), t)

HasAllTerms(e, query) ==
  \A i \in 1..Len(Terms(query)) : HasTerm(e, Terms(query)[i])

\* C3: for a query of one or more terms the search handler includes a record
\* iff every term occurs, ignoring case, in the record's searchable text; a
\* record holding only some of the terms is left out, and when no record
\* qualifies the result is empty with count 0.
C3_AndOfTerms ==
  (Answered("handleSearchAPI", 200) /\ Len(Terms(req.searchParams["q"])) >= 1) =>
    /\ res.body.results =
         SelectSeq(Stored, LAMBDA e : HasAllTerms(e, req.searchParams["q"]))
    /\ res.body.count = Len(res.body.results)
    /\ res.body.query = req.searchParams["q"]

\* a two-term query written in capitals: one stored record holds both terms
\* and is returned, another holds only one of them and is left out
C3_Witness ==
  /\ Answered("handleSearchAPI", 200)
  /\ Len(Terms(req.searchParams["q"])) = 2
  /\ req.searchParams["q"] # toLowerCase(req.searchParams["q"])
  /\ Len(res.body.results) = 1
  /\ \E i \in 1..Len(Stored) :
       /\ HasTerm(Stored[i], Terms(req.searchParams["q"])[1])
       /\ ~HasTerm(Stored[i], Terms(req.searchParams["q"])[2])
       /\ ~InSeq(Stored[i], res.body.results)

Whitespace == {" ", "\t", "\n"}

Blank(query) ==
  query = null \/ \A i \in 1..Len(query) : query[i] \in Whitespace

\* C4: invoked on a loadable document with a query that is absent, empty or
\* only whitespace, the search handler answers 400 and returns no result set.
C4_BlankQueryIsBadRequest ==
  (res.handler = "handleSearchAPI" /\ Loadable /\ Blank(req.searchParams["q"])) =>
    /\ res.statusCode = 400
    /\ "results" \notin DOMAIN res.body

\* C5: while the backing document cannot be read or parsed, each of the four
\* API handlers answers with status 500 and an error body, never with a
\* success status carrying a collection.
C5_DataUnavailable ==
  (~Loadable /\ res.handler \in {"handleLitigationAPI", "handleSearchAPI",
                                 "handleStatsAPI", "handleAgenciesAPI"}) =>
    /\ res.statusCode = 500
    /\ DOMAIN res.body = {"error"}

\* the statistics handler is called while the file holds invalid JSON
C5_Witness ==
  /\ file.kind = "corrupt"
  /\ Answered("handleStatsAPI", 500)
  /\ res.body.error = "Database not available"

\* the ordered checks of the status buckets: the first rule one of whose
\* words occurs in the lowercased status text names the bucket
BucketRules ==
  << [bucket |-> "Protective Outcomes",
      words |-> {<<"i", "n", "j", "u", "n", "c", "t", "i", "o", "n", " ", "g", "r", "a", "n", "t", "e", "d">>, <<"j", "u", "d", "g", "m", "e", "n", "t", " ", "f", "o", "r", " ", "p", "l", "a", "i", "n", "t", "i", "f", "f", "s">>}],
     [bucket |-> "Active Litigation", words |-> {<<"a", "c", "t", "i", "v", "e">>, <<"p", "e", "n", "d", "i", "n", "g">>}],
     [bucket |-> "Dismissed/Withdrawn", words |-> {<<"d", "i", "s", "m", "i", "s", "s", "e", "d">>, <<"w", "i", "t", "h", "d", "r", "e", "w">>}],
     [bucket |-> "Under Review", words |-> {<<"r", "e", "v", "i", "e", "w">>, <<"w", "a", "t", "c", "h">>}] >>

Buckets == {BucketRules[i].bucket : i \in 1..Len(BucketRules)} \cup {"Other"}

RuleHits(i, status) ==
  \E w \in BucketRules[i].words : includes(toLowerCase(status), w)

BucketOf(status) ==
  IF \A i \in 1..Len(BucketRules) : ~RuleHits(i, status) THEN "Other"
  ELSE BucketRules[CHOOSE i \in 1..Len(BucketRules) :
                     /\ RuleHits(i, status)
                     /\ \A j \in 1..(i - 1) : ~RuleHits(j, status)].bucket

InBucket(b) == {i \in 1..Len(Stored) : BucketOf(Stored[i].currentStatus) = b}

RECURSIVE SumOver(_, _)
SumOver(counts, keys) ==
  IF keys = {} THEN 0
  ELSE LET k == CHOOSE x \in keys : TRUE
       IN  counts[k] + SumOver(counts, keys \ {k})

Total(counts) == SumOver(counts, DOMAIN counts)

\* C6: the statistics handler counts every record in exactly one of the five
\* buckets, the one of the first check in the fixed order that matches its
\* lowercased status; a status with both "active" and "review" counts as
\* Active Litigation; the bucket counts sum to the number of records.
C6_StatusBucketing ==
  Answered("handleStatsAPI", 200) =>
    /\ DOMAIN res.body.byStatus \subseteq Buckets
    /\ \A b \in Buckets :
         IF InBucket(b) = {} THEN b \notin DOMAIN res.body.byStatus
         ELSE /\ b \in DOMAIN res.body.byStatus
              /\ res.body.byStatus[b] = Cardinality(InBucket(b))
    /\ Total(res.body.byStatus) = Len(Stored)
    /\ \A i \in 1..Len(Stored) :
         (ContainsIgnoringCase(Stored[i].currentStatus, <<"a", "c", "t", "i", "v", "e">>)
            /\ ContainsIgnoringCase(Stored[i].currentStatus, <<"r", "e", "v", "i", "e", "w">>)
            /\ ~RuleHits(1, Stored[i].currentStatus))
           => i \in InBucket("Active Litigation")

\* the statistics of a collection holding a record whose status has both
\* "active" and "review", next to a record of another bucket
C6_Witness ==
  /\ Answered("handleStatsAPI", 200)
  /\ \E i \in 1..Len(Stored) :
       /\ ContainsIgnoringCase(Stored[i].currentStatus, <<"a", "c", "t", "i", "v", "e">>)
       /\ ContainsIgnoringCase(Stored[i].currentStatus, <<"r", "e", "v", "i", "e", "w">>)
  /\ "Active Litigation" \in DOMAIN res.body.byStatus
  /\ Cardinality(DOMAIN res.body.byStatus) = 2

\* C7: when every record has exactly one classification, the values of
\* byClassification sum to the number of records, which is totalEntries.
C7_AggregationTotals ==
  Answered("handleStatsAPI", 200) =>
    /\ Total(res.body.byClassification) = Len(Stored)
    /\ res.body.totalEntries = Len(Stored)

\* the statistics of a collection in which two records share a classification
C7_Witness ==
  /\ Answered("handleStatsAPI", 200)
  /\ \E k \in DOMAIN res.body.byClassification : res.body.byClassification[k] = 2
  /\ res.body.totalEntries >= 2

\* C8: with an agency criterion, a record matches iff one of its agency
\* references has the criterion as its code, ignoring case, or has a
\* sub-agency code containing the criterion, ignoring case; a reference
\* without a sub-agency code is tested on its code only.
C8_AgencyCriterion ==
  (Answered("handleLitigationAPI", 200) /\ Supplied(req.searchParams["agency"])) =>
    /\ \A i \in 1..Len(res.body.entries) :
         MeetsAgency(res.body.entries[i], req.searchParams["agency"])
    /\ OnlySupplied(req.searchParams, "agency") =>
         res.body.entries =
           SelectSeq(Stored, LAMBDA e : MeetsAgency(e, req.searchParams["agency"]))

\* the criterion is given in mixed case; a returned record matches through a
\* sub-agency code only, and a stored record without that code is left out
C8_Witness ==
  /\ Answered("handleLitigationAPI", 200)
  /\ OnlySupplied(req.searchParams, "agency")
  /\ req.searchParams["agency"] # toUpperCase(req.searchParams["agency"])
  /\ Len(res.body.entries) < Len(Stored)
  /\ \E i \in 1..Len(res.body.entries) :
       \A j \in 1..Len(res.body.entries[i].agenciesInvolved) :
         ~SameIgnoringCase(res.body.entries[i].agenciesInvolved[j].agency,
                           req.searchParams["agency"])

\* C9: whatever the letter case of the classification criterion, the filter
\* returns exactly the records whose classification equals it ignoring case.
C9_ClassificationIgnoresCase ==
  (Answered("handleLitigationAPI", 200)
     /\ Supplied(req.searchParams["classification"])) =>
    /\ \A i \in 1..Len(res.body.entries) :
         MeetsClassification(res.body.entries[i], req.searchParams["classification"])
    /\ OnlySupplied(req.searchParams, "classification") =>
         res.body.entries =
           SelectSeq(Stored, LAMBDA e :
                       MeetsClassification(e, req.searchParams["classification"]))

\* the criterion is written in mixed case, neither all capitals nor all
\* small letters; one stored record is returned and another is not
C9_Witness ==
  /\ Answered("handleLitigationAPI", 200)
  /\ OnlySupplied(req.searchParams, "classification")
  /\ req.searchParams["classification"] # toUpperCase(req.searchParams["classification"])
  /\ req.searchParams["classification"] # toLowerCase(req.searchParams["classification"])
  /\ Len(res.body.entries) >= 1
  /\ Len(res.body.entries) < Len(Stored)

\* s is t with some elements left out: the elements of s in the order of t
RECURSIVE IsSubsequence(_, _)
IsSubsequence(s, t) ==
  IF Len(s) = 0 THEN TRUE
  ELSE IF Len(t) = 0 THEN FALSE
  ELSE IF s[1] = t[1] THEN IsSubsequence(Tail(s), Tail(t))
  ELSE IsSubsequence(s, Tail(t))

\* C10: the filter output is a subsequence of the stored collection: only
\* stored records, each at most once, in their stored relative order.
C10_SubsetLaw ==
  Answered("handleLitigationAPI", 200) =>
    /\ IsSubsequence(res.body.entries, Stored)
    /\ \A i, j \in 1..Len(res.body.entries) :
         res.body.entries[i] = res.body.entries[j] => i = j

\* a supplied criterion keeps two records and drops one stored between them
C10_Witness ==
  /\ Answered("handleLitigationAPI", 200)
  /\ \E n \in ParamNames : Supplied(req.searchParams[n])
  /\ Len(Stored) = 3
  /\ res.body.entries = <<Stored[1], Stored[3]>>

Returned(fn) == res.handler = fn

\* the year component of a date: its text before the first hyphen
RECURSIVE YearComponent(_)
YearComponent(date) ==
  IF Len(date) = 0 \/ date[1] = "-" THEN <<>>
  ELSE <<date[1]>> \o YearComponent(Tail(date))

MeetsYear(e, y) == YearComponent(e.filingDate) = y

\* C11: with a year criterion the filter returns only records whose primary
\* date has that year, AND-combined with the other criteria.
C11_YearCriterion ==
  (Returned("filterAndSort") /\ Supplied(req.searchParams["year"])) =>
    /\ \A i \in 1..Len(res.body.entries) :
         MeetsYear(res.body.entries[i], req.searchParams["year"])
    /\ res.body.entries =
         SelectSeq(Stored, LAMBDA e : MeetsAll(e, req.searchParams)
                                       /\ MeetsYear(e, req.searchParams["year"]))

\* a year and a community are supplied; a stored record of that community but
\* of another year is left out and a record meeting both is returned
C11_Witness ==
  /\ Returned("filterAndSort")
  /\ Supplied(req.searchParams["year"])
  /\ Supplied(req.searchParams["community"])
  /\ Len(res.body.entries) >= 1
  /\ \E i \in 1..Len(Stored) :
       /\ MeetsCommunity(Stored[i], req.searchParams["community"])
       /\ ~MeetsYear(Stored[i], req.searchParams["year"])

IdHits(p) ==
  {i \in 1..Len(Stored) : Stored[i].id = p["id"] /\ MeetsAll(Stored[i], p)}

\* C12: with an id criterion the filter returns at most one record: the
\* record whose id equals the criterion exactly, letter case included, if it
\* also meets the other supplied criteria; otherwise nothing.
C12_IdCriterion ==
  (Answered("handleLitigationAPI", 200) /\ Supplied(req.searchParams["id"])) =>
    /\ Len(res.body.entries) <= 1
    /\ \A i \in 1..Len(res.body.entries) : res.body.entries[i].id = req.searchParams["id"]
    /\ IF IdHits(req.searchParams) = {} THEN res.body.entries = <<>>
       ELSE \E i \in IdHits(req.searchParams) : res.body.entries = <<Stored[i]>>

\* the id of one of several stored records is asked for together with
\* another criterion, and exactly that record comes back
C12_Witness ==
  /\ Answered("handleLitigationAPI", 200)
  /\ Supplied(req.searchParams["id"])
  /\ Supplied(req.searchParams["classification"])
  /\ Len(Stored) >= 2
  /\ Len(res.body.entries) = 1
  /\ res.body.entries[1].id = req.searchParams["id"]

NoneMeets(p) == \A i \in 1..Len(Stored) : ~MeetsAll(Stored[i], p)

\* C13: on a loadable collection any filter criteria and any non-empty search
\* query are answered with success; when nothing matches the response holds
\* an empty sequence and count 0.
C13_NoMatchIsNoError ==
  /\ (Loadable /\ res.handler = "handleLitigationAPI") =>
       /\ res.statusCode = 200
       /\ NoneMeets(req.searchParams) => (res.body.entries = <<>> /\ res.body.count = 0)
  /\ (Loadable /\ res.handler = "handleSearchAPI" /\ Supplied(req.searchParams["q"])) =>
       /\ res.statusCode = 200
       /\ (\A i \in 1..Len(Stored) : ~HasAllTerms(Stored[i], req.searchParams["q"]))
            => (res.body.results = <<>> /\ res.body.count = 0)

\* records are stored, the id asked for occurs in none of them, and the
\* answer is a success with an empty sequence
C13_Witness ==
  /\ Answered("handleLitigationAPI", 200)
  /\ Len(Stored) >= 1
  /\ Supplied(req.searchParams["id"])
  /\ \A i \in 1..Len(Stored) : Stored[i].id # req.searchParams["id"]
  /\ res.body.entries = <<>>
  /\ res.body.count = 0

\* the place of a record in the stored collection (ids are unique)
StoredIndex(e) == CHOOSE i \in 1..Len(Stored) : Stored[i] = e

InTitle(e, t) == ContainsIgnoringCase(e.caseName, t)

InNarrative(e, t) ==
  ContainsIgnoringCase(e.culturalImpactAnalysis.narrativeAssessment, t)

\* t occurs in the narrative of e and in no other searchable field of e
OnlyInNarrative(e, t) ==
  /\ InNarrative(e, t)
  /\ ~InTitle(e, t)
  /\ ~ContainsIgnoringCase(e.claimsAndLegalBasis.summary, t)
  /\ \A k \in 1..Len(e.agenciesInvolved) :
       ~ContainsIgnoringCase(e.agenciesInvolved[k].agency, t)
  /\ \A k \in 1..Len(e.culturalImpactAnalysis.affectedCommunities) :
       ~ContainsIgnoringCase(e.culturalImpactAnalysis.affectedCommunities[k], t)

QueryTerms == Terms(req.searchParams["q"])

\* C14: ranked search results are in descending score order, ties in
\* collection order; a record with a query term in its title comes before a
\* record holding the terms in its narrative only, whatever their stored order.
C14_RelevanceRanking ==
  Returned("searchWithRelevance") =>
    /\ \A i, j \in 1..Len(res.body.results) :
         i < j =>
           \/ res.body.results[i].score > res.body.results[j].score
           \/ /\ res.body.results[i].score = res.body.results[j].score
              /\ StoredIndex(res.body.results[i].doc) < StoredIndex(res.body.results[j].doc)
    /\ \A i, j \in 1..Len(res.body.results) :
         ( /\ \E k \in 1..Len(QueryTerms) : InTitle(res.body.results[i].doc, QueryTerms[k])
           /\ \A k \in 1..Len(QueryTerms) :
                OnlyInNarrative(res.body.results[j].doc, QueryTerms[k]) )
           => i < j

\* the record with the term in its narrative only is stored first, and the
\* record with the term in its title is ranked first
C14_Witness ==
  /\ Returned("searchWithRelevance")
  /\ Len(res.body.results) = 2
  /\ InTitle(res.body.results[1].doc, QueryTerms[1])
  /\ OnlyInNarrative(res.body.results[2].doc, QueryTerms[1])
  /\ StoredIndex(res.body.results[2].doc) < StoredIndex(res.body.results[1].doc)

\* the terms of a query cut at every run of whitespace, lowercased
RECURSIVE WordsFrom(_, _)
WordsFrom(s, cur) ==
  IF Len(s) = 0 THEN (IF cur = <<>> THEN <<>> ELSE <<cur>>)
  ELSE IF s[1] \in Whitespace
    THEN (IF cur = <<>> THEN <<>> ELSE <<cur>>) \o WordsFrom(Tail(s), <<>>)
  ELSE WordsFrom(Tail(s), Append(cur, s[1]))

WhitespaceTerms(query) == WordsFrom(toLowerCase(query), <<>>)

HasAllWhitespaceTerms(e, query) ==
  \A k \in 1..Len(WhitespaceTerms(query)) : HasTerm(e, WhitespaceTerms(query)[k])

\* C15: the query is cut into terms at every run of whitespace (spaces, tabs,
\* newlines) and lowercased, so queries that differ only in the whitespace
\* between the same terms, or in letter case, select the same records.
C15_WhitespaceTokenization ==
  (Answered("handleSearchAPI", 200) /\ ~Blank(req.searchParams["q"])) =>
    res.body.results =
      SelectSeq(Stored, LAMBDA e : HasAllWhitespaceTerms(e, req.searchParams["q"]))

CodesOf(e) == {e.agenciesInvolved[k].agency : k \in 1..Len(e.agenciesInvolved)}

StoredCodes == UNION {CodesOf(Stored[i]) : i \in 1..Len(Stored)}

\* the number of agency-list entries of all stored records that carry code
Occurrences(code) ==
  SumOver([i \in 1..Len(Stored) |->
             Cardinality({k \in 1..Len(Stored[i].agenciesInvolved) :
                            Stored[i].agenciesInvolved[k].agency = code})],
          1..Len(Stored))

\* C16: byAgency[code] is the number of agency-list entries carrying exactly
\* that code over all records (a record listing it twice adds 2); codes of no
\* record have no key, and no count is zero or negative.
C16_ByAgencyCountsOccurrences ==
  Answered("handleStatsAPI", 200) =>
    /\ DOMAIN res.body.byAgency = StoredCodes
    /\ \A code \in DOMAIN res.body.byAgency :
         /\ res.body.byAgency[code] = Occurrences(code)
         /\ res.body.byAgency[code] >= 1

\* one stored record lists a code twice, no other record carries it, and the
\* code is counted 2
C16_Witness ==
  /\ Answered("handleStatsAPI", 200)
  /\ Len(Stored) >= 2
  /\ \E code \in StoredCodes :
       /\ res.body.byAgency[code] = 2
       /\ Cardinality({i \in 1..Len(Stored) : code \in CodesOf(Stored[i])}) = 1

ApiHandlers ==
  {"handleLitigationAPI", "handleSearchAPI", "handleStatsAPI", "handleAgenciesAPI"}

\* the records a filter or search response carries
ReturnedRecords ==
  IF Answered("handleLitigationAPI", 200) THEN res.body.entries
  ELSE IF Answered("handleSearchAPI", 200) THEN res.body.results
  ELSE <<>>

C18_ReadOnlyPassThrough ==
  [][(Idle /\ ~Idle') =>
       /\ file' = file
       /\ \A i \in 1..Len(ReturnedRecords') : InSeq(ReturnedRecords'[i], Stored)]_vars

\* a search returns a stored record together with its docket number and
\* filing date, fields the search never reads
C18_Witness ==
  /\ Answered("handleSearchAPI", 200)
  /\ Len(res.body.results) >= 1
  /\ InSeq(res.body.results[1], Stored)
  /\ Len(res.body.results[1].docketNumber) > 0
  /\ Len(res.body.results[1].filingDate) > 0

\* C19: on the collection of the minimal records A (CRITICAL, EPA, Active)
\* and B (PROTECTIVE, DOI, Dismissed), which have no community list, the
\* filter by classification CRITICAL returns [A] and the statistics give
\* byClassification {CRITICAL: 1, PROTECTIVE: 1} and the status buckets
\* {Active Litigation: 1, Dismissed/Withdrawn: 1}.
C19_MinimalRecordScenario ==
  Stored = <<RecordA, RecordB>> =>
    /\ (/\ res.handler = "handleLitigationAPI"
        /\ OnlySupplied(req.searchParams, "classification")
        /\ req.searchParams["classification"] = <<"C", "R", "I", "T", "I", "C", "A", "L">>)
         => /\ Answered("handleLitigationAPI", 200)
            /\ res.body.entries = <<RecordA>>
    /\ res.handler = "handleStatsAPI"
         => /\ Answered("handleStatsAPI", 200)
            /\ res.body.byClassification = [k \in {<<"C", "R", "I", "T", "I", "C", "A", "L">>, <<"P", "R", "O", "T", "E", "C", "T", "I", "V", "E">>} |-> 1]
            /\ res.body.byStatus = [k \in {"Active Litigation", "Dismissed/Withdrawn"} |-> 1]

\* C20: on a loadable collection without records the filter answers with an
\* empty sequence whatever the criteria, and the statistics with totalEntries
\* 0 and four empty mappings, both as a success.
C20_EmptyInputBoundary ==
  (Loadable /\ Stored = <<>>) =>
    /\ res.handler = "handleLitigationAPI"
         => /\ Answered("handleLitigationAPI", 200)
            /\ res.body.entries = <<>>
            /\ res.body.count = 0
    /\ res.handler = "handleStatsAPI"
         => /\ Answered("handleStatsAPI", 200)
            /\ res.body.totalEntries = 0
            /\ DOMAIN res.body.byClassification = {}
            /\ DOMAIN res.body.byAgency = {}
            /\ DOMAIN res.body.byCommunity = {}
            /\ DOMAIN res.body.byStatus = {}

\* the statistics of a readable file whose litigationEntries is empty
C20_Witness ==
  /\ Loadable
  /\ Stored = <<>>
  /\ Answered("handleStatsAPI", 200)
  /\ res.body.totalEntries = 0

IsArray(value) == value.type = "array"

\* C22: performSearch on an empty or whitespace-only input sends no request
\* and sets filteredEntries to a copy of all loaded entries, on every
\* invocation.
C22_EmptyQueryPolicy ==
  (lastEvent.name = "performSearch" /\ Blank(lastEvent.input)) =>
    /\ ~lastEvent.sent
    /\ IsArray(filteredEntries)
    /\ filteredEntries = allEntries

\* what the search started last gives: all loaded entries for an empty
\* query, else the results property of the server's answer to the query
LatestResults ==
  IF latest.query = <<>> THEN allEntries
  ELSE arrayProperty(fetchJson(<<"/", "a", "p", "i", "/", "l", "i", "t", "i", "g", "a", "t", "i", "o", "n", "/", "s", "e", "a", "r", "c", "h">>,
                               searchUrlParams(latest.query), file), "results")

\* C23: once every response has arrived, filteredEntries holds the results
\* of the search that was started last, in whatever order the responses of
\* the searches came in.
C23_ResponsesInIssueOrder ==
  (/\ pending = {}
   /\ latest # NoSearch
   /\ ~latest.failed
   /\ IsArray(allEntries)
   /\ lastEvent.name \in {"performSearch", "searchResponse"})
    => filteredEntries = LatestResults

\* C24: allEntries and filteredEntries are arrays in every state of the
\* page, and neither rendering the list nor applying the filters throws.
C24_ListStateIsSequence ==
  /\ IsArray(allEntries)
  /\ IsArray(filteredEntries)
  /\ failed \cap {"renderLitigationList", "applyFilters", "performSearch"} = {}

\* the criteria of a filter request that carry the values of the selects
AsCriteria(values) ==
  [NoParams EXCEPT !["classification"] = values.classification,
                   !["agency"] = values.agency,
                   !["community"] = values.community]

\* C25: applyFilters selects from the loaded entries the records, in the
\* order, that the server's filter handler returns for the same
\* classification, agency and community values on the same collection.
C25_ClientServerFiltersAgree ==
  (lastEvent.name = "applyFilters" /\ IsArray(allEntries)) =>
    /\ IsArray(filteredEntries)
    /\ filteredEntries.items =
         handleLitigationAPI(JsonFile(allEntries.items),
                             AsCriteria(lastEvent.values)).body.entries

\* C26: after applyFilters, filteredEntries is the loaded entries that meet
\* the three selected values, whatever was searched before; after a search
\* response, it is the results of that response, whatever is selected.
C26_LastOperationWins ==
  /\ lastEvent.name = "applyFilters" =>
       /\ IsArray(allEntries)
       /\ IsArray(filteredEntries)
       /\ filteredEntries.items =
            SelectSeq(allEntries.items, LAMBDA e : entryPasses(e, lastEvent.values))
  /\ (lastEvent.name = "searchResponse" /\ lastEvent.fetched) =>
       filteredEntries = arrayProperty(lastEvent.data, "results")

\* C27: whatever JSON document the file holds (records without
\* culturalImpactAnalysis included) and whatever the parameters, the handler
\* invoked writes one status and one body, and the server goes on serving.
C27_AnsweredExactlyOnce ==
  res.handler \in ApiHandlers =>
    /\ res.statusCode \in {200, 400, 500}
    /\ ~Crashed
    /\ ENABLED Finish

\* C28: the search handler invoked while the document cannot be loaded
\* answers with the data-unavailable error, with or without a query; the
\* bad-request error is given only for a document that loaded.
C28_ErrorPrecedence ==
  res.handler = "handleSearchAPI" =>
    /\ ~Loadable => (res.statusCode = 500 /\ res.body.error = "Database not available")
    /\ res.statusCode = 400 => Loadable

\* a search without a query on a file that cannot be loaded
C28_Witness ==
  /\ Answered("handleSearchAPI", 500)
  /\ ~Loadable
  /\ ~Supplied(req.searchParams["q"])

\* the searchable fields of a record, each on its own; sub-agency codes are
\* not among them
SearchFields(e) ==
  {e.caseName, e.claimsAndLegalBasis.summary,
   e.culturalImpactAnalysis.narrativeAssessment}
    \cup {e.agenciesInvolved[i].agency : i \in 1..Len(e.agenciesInvolved)}
    \cup {e.culturalImpactAnalysis.affectedCommunities[i] :
            i \in 1..Len(e.culturalImpactAnalysis.affectedCommunities)}

FieldHasTerm(e, t) == \E f \in SearchFields(e) : ContainsIgnoringCase(f, t)

EachTermInSomeField(e, query) ==
  \A i \in 1..Len(Terms(query)) : FieldHasTerm(e, Terms(query)[i])

\* C29: a term matches a record iff one single searchable field contains it
\* (never a text running over the end of one field into the next); the
\* terms of a query may be found in different fields, and sub-agency codes
\* are not searched.
C29_NoMatchAcrossFields ==
  Answered("handleSearchAPI", 200) =>
    res.body.results =
      SelectSeq(Stored, LAMBDA e : EachTermInSomeField(e, req.searchParams["q"]))

\* a term made of the end of a case name and the start of its summary
\* finds nothing, although the record with both is stored
C29_Witness ==
  /\ Answered("handleSearchAPI", 200)
  /\ req.searchParams["q"] = <<"e", "p", "a", "c", "l", "e", "a", "n">>
  /\ \E i \in 1..Len(Stored) :
       ContainsIgnoringCase(Stored[i].caseName \o Stored[i].claimsAndLegalBasis.summary,
                            <<"e", "p", "a", "c", "l", "e", "a", "n">>)
  /\ res.body.results = <<>>

Changed(before, after) == IF before = after THEN 0 ELSE 1

\* C30: the three panels start hidden; a click flips the flag of its own
\* panel and leaves the two other flags, and all the data, unchanged (so a
\* second click on the same button restores the state before the first).
C30_TogglesIndependent ==
  /\ ~showCriteria /\ ~showFramework /\ ~showAgencies
  /\ [][viewVars' # viewVars =>
          /\ Changed(showCriteria, showCriteria')
               + Changed(showFramework, showFramework')
               + Changed(showAgencies, showAgencies') = 1
          /\ {showCriteria', showFramework', showAgencies'} \subseteq BOOLEAN
          /\ UNCHANGED <<file, req, res, errorLogged, earlier, clientVars>>]_vars

\* the agency charts opened next to a filtered list, the criteria panel
\* opened and closed again or never touched
C30_Witness ==
  /\ showAgencies
  /\ ~showCriteria
  /\ showFramework
  /\ res.handler = "filterAndSort"
  /\ Len(Stored) >= 1

====
